---- MODULE Spec2Model ----
(***************************************************************************)
(* Model of pkg/maxmind/download.go: Downloader.Download and the three     *)
(* stages it sequences (expectedHash, downloadArchive, extractArchive),    *)
(* over an abstract disk (archive file, MD5 marker file, download          *)
(* directory) and an abstract remote endpoint.                             *)
(***************************************************************************)
EXTENDS Integers, Sequences, FiniteSets, TLC

\* ------------------------------------------------------------------ bounds
\* File contents are numbered 1..MaxContent; 0 is the empty (truncated) file.
MaxContent == 3
\* Number of distinct digests of non-empty contents (fewer than MaxContent,
\* so that two different contents can share a digest).
NumDigests == 2
\* Longest archive (number of entries) the remote may serve.
MaxEntries == 2

\* Processes that may run Download(); SeqProcs is the single caller of the
\* sequential specification.
Procs == {"p1", "p2"}
SeqProcs == {"p1"}

\* ------------------------------------------------------------- file names
\* A file name is a sequence of tokens; "." is the extension separator.
CsvName == <<"a", ".", "csv">>
MmdbName == <<"b", ".", "mmdb">>
TxtName == <<"c", ".", "txt">>
Names == {CsvName, MmdbName, TxtName}

MaxOf(S) == CHOOSE x \in S : \A y \in S : y <= x

\* filepath.Ext: the suffix beginning at the final dot, empty if no dot.
Ext(name) ==
  LET dots == {i \in 1..Len(name) : name[i] = "."}
  IN  IF dots = {} THEN <<>> ELSE SubSeq(name, MaxOf(dots), Len(name))

\* ---------------------------------------------------------------- entries
\* Modification time recorded in every archive entry; a file written "now"
\* carries time 0 until os.Chtimes succeeds.
EntryTime == 1

FileEntry(n, c) == [name |-> n, dir |-> FALSE, content |-> c, modTime |-> EntryTime]
\* A directory entry whose name carries a payload extension.
DirEntry == [name |-> CsvName, dir |-> TRUE, content |-> 0, modTime |-> EntryTime]

EntrySet ==
  {DirEntry, FileEntry(MmdbName, 1), FileEntry(TxtName, 1)}
    \cup {FileEntry(CsvName, c) : c \in 1..MaxContent}

SeqsUpTo(S, n) == UNION {[1..k -> S] : k \in 0..n}
Archives == SeqsUpTo(EntrySet, MaxEntries)

\* ---------------------------------------------------------------- digests
\* checksumFromFile / checksumFromReader: a deterministic digest that is not
\* injective. Digest 0 is the digest of the empty file.
Digest(n) == IF n = 0 THEN 0 ELSE 1 + (n % NumDigests)
Digests == 0..NumDigests

NameCode(n) == IF n = CsvName THEN 1 ELSE IF n = MmdbName THEN 2 ELSE 3
EntryCode(f) == f.content + NameCode(f.name) + (IF f.dir THEN 1 ELSE 0)

RECURSIVE ArchiveCode(_)
\* A number standing for the byte content of a well-formed archive (>= 1).
ArchiveCode(a) ==
  IF a = <<>> THEN 1
  ELSE Len(a) * EntryCode(a[Len(a)]) + ArchiveCode(SubSeq(a, 1, Len(a) - 1))

\* ------------------------------------------------------------------- disk
\* The archive file: absent, partial (empty, cut short or not an archive),
\* or full (a well-formed archive with the given entries).
AbsentArchive == [st |-> "absent", entries |-> <<>>]
PartialArchive == [st |-> "partial", entries |-> <<>>]
FullArchive(a) == [st |-> "full", entries |-> a]
Bodies == {PartialArchive} \cup {FullArchive(a) : a \in Archives}

\* checksumFromFile on the archive path.
ArchiveSum(file) == IF file.st = "full" THEN Digest(ArchiveCode(file.entries)) ELSE 0

\* A destination file: content -1 means the file does not exist.
AbsentFile == [content |-> -1, mtime |-> 0]
NewFile(c, t) == [content |-> c, mtime |-> t]
\* fileExists(dbpath)
fileExists(file) == file.content # -1

\* The marker file holds a digest, is empty (-1), or does not exist (-2).
AbsentMarker == -2
EmptyMarker == -1

\* ----------------------------------------------------------------- errors
NoErr == [kind |-> "none", cur |-> -1, exp |-> -1]
Err(k) == [kind |-> k, cur |-> -1, exp |-> -1]
\* errors.Errorf("MD5 of downloaded archive (%s) does not match expected md5 (%s)")
MismatchErr(c, e) == [kind |-> "mismatch", cur |-> c, exp |-> e]

VARIABLES
  archive,   \* the archive file in the working directory
  marker,    \* the .<archive>.md5 marker file
  dest,      \* the download directory: file name -> destination file
  pc,        \* position of each Download() invocation
  expHash,   \* Download's expHash
  err,       \* the error Download() returned
  ret,       \* the entries Download() returned
  dbs,       \* extractArchive's dbs
  idx,       \* archiver.Walk's position in the archive
  obs,       \* what each invocation did so far (observation only):
             \*   metaReqs, archReqs  requests issued to the two endpoints
             \*   cmp         outcome of downloadArchive's first comparison
             \*   marker0     the marker as the invocation found it, kept until
             \*               the invocation writes the marker itself
             \*   destEmpty0  the download directory was empty at the call
             \*   prevOk      lastOk at the call, kept until expHash is known
             \*   repeat      the previous call succeeded with the same expHash
             \*   bodySum     checksum of the archive response body
             \*   stages      the stages begun, in order
             \*   archWrites, destWrites  creations and writes of the files
             \*   skipped     entries found already up to date
             \*   chtFailed   entries whose os.Chtimes failed
  lastOk     \* expHash of the invocation that just returned if it succeeded
             \* and none was called since, else -1

vars == <<archive, marker, dest, pc, expHash, err, ret, dbs, idx, obs, lastOk>>
disk == <<archive, marker, dest>>

StageOrder == <<"meta", "fetch", "marker", "extract">>

NoObs ==
  [metaReqs |-> 0, archReqs |-> 0, cmp |-> "none", marker0 |-> AbsentMarker,
   destEmpty0 |-> FALSE, prevOk |-> -1, repeat |-> FALSE, bodySum |-> -1, stages |-> <<>>,
   archWrites |-> 0, destWrites |-> 0,
   skipped |-> {}, chtFailed |-> {}]

\* Initial download directories: any mix of absent files and files left by
\* the user or an earlier run.
InitDests ==
  {d \in [Names -> {AbsentFile} \cup {NewFile(c, 0) : c \in 1..MaxContent}] :
     /\ d[TxtName] = AbsentFile
     /\ d[MmdbName] \in {AbsentFile, NewFile(1, 0)}}

Init ==
  /\ archive = AbsentArchive
  /\ marker = AbsentMarker
  /\ dest \in InitDests
  /\ pc = [p \in Procs |-> "idle"]
  /\ expHash = [p \in Procs |-> -1]
  /\ err = [p \in Procs |-> NoErr]
  /\ ret = [p \in Procs |-> <<>>]
  /\ dbs = [p \in Procs |-> <<>>]
  /\ idx = [p \in Procs |-> 0]
  /\ obs = [p \in Procs |-> NoObs]
  /\ lastOk = -1

\* ------------------------------------------------------- decision helpers
PayloadExts == {<<".", "csv">>, <<".", "mmdb">>}

\* extractArchive's filter: f.IsDir() and the two filepath.Ext tests.
IsPayload(f) == ~f.dir /\ Ext(f.name) \in PayloadExts

\* Variant: an existing archive is taken as valid without comparing checksums.
ArchiveIsCurrent_ExistsOnly(exp, file) == file.st # "absent"

\* Variant: the marker (currentHash) is trusted before the archive is hashed.
ArchiveIsCurrent_ByMarker(exp, file) ==
  file.st # "absent" /\ (marker = exp \/ exp = ArchiveSum(file))

\* downloadArchive's shortcut: the archive exists and its checksum, computed
\* from the file, equals expHash.
ArchiveIsCurrent(exp, file) == file.st # "absent" /\ exp = ArchiveSum(file)

\* Variant: every payload entry is extracted again.
UpToDate_Never(f, file) == FALSE

\* extractArchive's per-entry shortcut: the destination exists and its
\* checksum equals the entry's.
UpToDate(f, file) == fileExists(file) /\ Digest(f.content) = Digest(file.content)

\* ---------------------------------------------------------------- helpers
Saw(p, o) == obs' = [obs EXCEPT ![p] = o]
Goto(p, l) == pc' = [pc EXCEPT ![p] = l]

\* Download() returns (nil, e).
Fail(p, e) ==
  /\ pc' = [pc EXCEPT ![p] = "done"]
  /\ err' = [err EXCEPT ![p] = e]
  /\ ret' = [ret EXCEPT ![p] = <<>>]

\* ------------------------------------------------------------- Download()
\* Download() is called: nothing has run yet.
Start(p) ==
  /\ pc[p] = "idle"
  /\ pc' = [pc EXCEPT ![p] = "meta"]
  /\ Saw(p, [NoObs EXCEPT !.marker0 = marker,
                          !.destEmpty0 = \A n \in Names : ~fileExists(dest[n]),
                          !.prevOk = lastOk])
  /\ lastOk' = -1
  /\ UNCHANGED <<disk, expHash, err, ret, dbs, idx>>

\* Variant: Download drops expectedHash's error and goes on with "".
ExpectedHash_IgnoreErr(p) ==
  /\ pc[p] = "meta"
  /\ LET o == [obs[p] EXCEPT !.metaReqs = @ + 1, !.stages = Append(@, "meta"),
                             !.prevOk = -1]
     IN  /\ Saw(p, o)
         /\ \/ UNCHANGED expHash
            \/ \E h \in Digests : expHash' = [expHash EXCEPT ![p] = h]
         /\ Goto(p, "stat")
         /\ UNCHANGED <<err, ret>>
  /\ UNCHANGED <<disk, dbs, idx, lastOk>>

\* expectedHash() and Download's handling of its result.
ExpectedHash(p) ==
  /\ pc[p] = "meta"
  /\ LET o == [obs[p] EXCEPT !.metaReqs = @ + 1, !.stages = Append(@, "meta")]
     IN  /\ \/ \* d.http.Do fails, the status is not 200, or the body cannot be read
               /\ \E k \in {"transport", "status", "readbody"} : Fail(p, Err(k))
               /\ Saw(p, [o EXCEPT !.prevOk = -1])
               /\ UNCHANGED expHash
            \/ \* 200: the raw body is the expected checksum
               /\ \E h \in Digests :
                    /\ expHash' = [expHash EXCEPT ![p] = h]
                    /\ Saw(p, [o EXCEPT !.repeat = (o.prevOk = h), !.prevOk = -1])
               /\ Goto(p, "stat")
               /\ UNCHANGED <<err, ret>>
  /\ UNCHANGED <<disk, dbs, idx, lastOk>>

\* downloadArchive, up to the decision whether to download.
CheckArchive(p) ==
  /\ pc[p] = "stat"
  /\ LET o == [obs[p] EXCEPT !.stages = Append(@, "fetch")]
     IN  \/ \* checksumFromFile(archive) fails
            /\ archive.st # "absent"
            /\ Fail(p, Err("archivesum"))
            /\ Saw(p, o)
         \/ /\ ArchiveIsCurrent(expHash[p], archive)
            /\ Goto(p, "marker")
            /\ Saw(p, [o EXCEPT !.cmp = "match"])
            /\ UNCHANGED <<err, ret>>
         \/ /\ ~ArchiveIsCurrent(expHash[p], archive)
            /\ Goto(p, "get")
            /\ Saw(p, [o EXCEPT !.cmp = "nomatch"])
            /\ UNCHANGED <<err, ret>>
  /\ UNCHANGED <<disk, expHash, dbs, idx, lastOk>>

\* Variant: the archive file is created (truncated) before the request's
\* outcome is known.
GetArchive_CreateFirst(p) ==
  /\ pc[p] = "get"
  /\ Saw(p, [obs[p] EXCEPT !.archReqs = @ + 1, !.archWrites = @ + 1])
  /\ archive' = PartialArchive
  /\ \/ /\ \E k \in {"transport", "status"} : Fail(p, Err(k))
     \/ /\ Goto(p, "create")
        /\ UNCHANGED <<err, ret>>
  /\ UNCHANGED <<marker, dest, expHash, dbs, idx, lastOk>>

\* downloadArchive: the archive request and its status.
GetArchive(p) ==
  /\ pc[p] = "get"
  /\ Saw(p, [obs[p] EXCEPT !.archReqs = @ + 1])
  /\ \/ /\ \E k \in {"transport", "status"} : Fail(p, Err(k))
     \/ /\ Goto(p, "create")
        /\ UNCHANGED <<err, ret>>
  /\ UNCHANGED <<disk, expHash, dbs, idx, lastOk>>

\* downloadArchive: os.Create(archive) truncates the file.
CreateArchive(p) ==
  /\ pc[p] = "create"
  /\ \/ /\ Fail(p, Err("createarchive"))
        /\ UNCHANGED <<archive, obs>>
     \/ /\ archive' = PartialArchive
        /\ Saw(p, [obs[p] EXCEPT !.archWrites = @ + 1])
        /\ Goto(p, "copy")
        /\ UNCHANGED <<err, ret>>
  /\ UNCHANGED <<marker, dest, expHash, dbs, idx, lastOk>>

\* downloadArchive: io.Copy(out, res.Body).
CopyArchive(p) ==
  /\ pc[p] = "copy"
  /\ \E body \in Bodies :
       /\ Saw(p, [obs[p] EXCEPT !.bodySum = ArchiveSum(body), !.archWrites = @ + 1])
       /\ \/ \* the copy is cut short
             /\ archive' = PartialArchive
             /\ Fail(p, Err("copyarchive"))
          \/ /\ archive' = body
             /\ Goto(p, "verify")
             /\ UNCHANGED <<err, ret>>
  /\ UNCHANGED <<marker, dest, expHash, dbs, idx, lastOk>>

\* Variant: the downloaded archive is accepted whatever its checksum.
VerifyArchive_NoGate(p) ==
  /\ pc[p] = "verify"
  /\ \/ Fail(p, Err("archivesum"))
     \/ /\ Goto(p, "marker")
        /\ UNCHANGED <<err, ret>>
  /\ UNCHANGED <<disk, expHash, dbs, idx, obs, lastOk>>

\* Variant: a checksum mismatch makes downloadArchive request the archive again.
VerifyArchive_Retry(p) ==
  /\ pc[p] = "verify"
  /\ \/ Fail(p, Err("archivesum"))
     \/ /\ expHash[p] # ArchiveSum(archive)
        /\ Goto(p, "get")
        /\ UNCHANGED <<err, ret>>
     \/ /\ expHash[p] = ArchiveSum(archive)
        /\ Goto(p, "marker")
        /\ UNCHANGED <<err, ret>>
  /\ UNCHANGED <<disk, expHash, dbs, idx, obs, lastOk>>

\* downloadArchive: the checksum of the file just written against expHash.
VerifyArchive(p) ==
  /\ pc[p] = "verify"
  /\ \/ Fail(p, Err("archivesum"))
     \/ /\ expHash[p] # ArchiveSum(archive)
        /\ Fail(p, MismatchErr(ArchiveSum(archive), expHash[p]))
     \/ /\ expHash[p] = ArchiveSum(archive)
        /\ Goto(p, "marker")
        /\ UNCHANGED <<err, ret>>
  /\ UNCHANGED <<disk, expHash, dbs, idx, obs, lastOk>>

\* createFile(md5file, expHash): creates or truncates, then writes.
createFile(p) ==
  \/ /\ marker' \in {marker, EmptyMarker}
     /\ Fail(p, Err("createmd5"))
     /\ Saw(p, [obs[p] EXCEPT !.stages = Append(@, "marker"),
                               !.marker0 = IF marker' = marker THEN @ ELSE AbsentMarker])
     /\ UNCHANGED idx
  \/ /\ marker' = expHash[p]
     /\ Goto(p, "walk")
     /\ idx' = [idx EXCEPT ![p] = 1]
     /\ Saw(p, [obs[p] EXCEPT !.stages = Append(Append(@, "marker"), "extract"),
                               !.marker0 = AbsentMarker])
     /\ UNCHANGED <<err, ret>>

\* Variant: the MD5 file is written only after a fresh download.
WriteMarker_OnlyAfterDownload(p) ==
  /\ pc[p] = "marker"
  /\ \/ /\ obs[p].archReqs > 0
        /\ createFile(p)
     \/ /\ obs[p].archReqs = 0
        /\ Goto(p, "walk")
        /\ idx' = [idx EXCEPT ![p] = 1]
        /\ Saw(p, [obs[p] EXCEPT !.stages = Append(@, "extract")])
        /\ UNCHANGED <<marker, err, ret>>
  /\ UNCHANGED <<archive, dest, expHash, dbs, lastOk>>

\* Download: the MD5 file is written after downloadArchive returned nil, then
\* extractArchive is called.
WriteMarker(p) ==
  /\ pc[p] = "marker"
  /\ createFile(p)
  /\ UNCHANGED <<archive, dest, expHash, dbs, lastOk>>

\* The callback goes on to the next entry (return nil).
NextEntry(p) ==
  /\ idx' = [idx EXCEPT ![p] = idx[p] + 1]
  /\ UNCHANGED <<pc, err, ret>>

\* Variant: a failing os.Chtimes is returned as an error.
ExtractEntry_ChtimesFatal(p, f) ==
  \/ /\ Fail(p, Err("createdb"))
     /\ UNCHANGED <<dest, dbs, idx, obs>>
  \/ /\ dest' = [dest EXCEPT ![f.name] = NewFile(0, 0)]
     /\ Fail(p, Err("copydb"))
     /\ Saw(p, [obs[p] EXCEPT !.destWrites = @ + 1])
     /\ UNCHANGED <<dbs, idx>>
  \/ /\ dest' = [dest EXCEPT ![f.name] = NewFile(f.content, f.modTime)]
     /\ Saw(p, [obs[p] EXCEPT !.destWrites = @ + 1])
     /\ dbs' = [dbs EXCEPT ![p] = Append(@, f)]
     /\ NextEntry(p)
  \/ /\ dest' = [dest EXCEPT ![f.name] = NewFile(f.content, 0)]
     /\ Saw(p, [obs[p] EXCEPT !.destWrites = @ + 1, !.chtFailed = @ \cup {idx[p]}])
     /\ Fail(p, Err("chtimes"))
     /\ UNCHANGED <<dbs, idx>>

\* The callback's tail for an entry that is to be extracted: os.Create,
\* io.Copy, os.Chtimes, append to dbs.
ExtractEntry(p, f) ==
  \/ \* os.Create(dbpath) fails
     /\ Fail(p, Err("createdb"))
     /\ UNCHANGED <<dest, dbs, idx, obs>>
  \/ \* io.Copy fails after os.Create truncated the file
     /\ dest' = [dest EXCEPT ![f.name] = NewFile(0, 0)]
     /\ Fail(p, Err("copydb"))
     /\ Saw(p, [obs[p] EXCEPT !.destWrites = @ + 1])
     /\ UNCHANGED <<dbs, idx>>
  \/ \* the file is written; os.Chtimes may fail, which is only logged
     /\ \E chtimesOk \in BOOLEAN :
          /\ dest' = [dest EXCEPT ![f.name] =
                        NewFile(f.content, IF chtimesOk THEN f.modTime ELSE 0)]
          /\ Saw(p, [obs[p] EXCEPT !.destWrites = @ + 1,
                                   !.chtFailed = IF chtimesOk THEN @ ELSE @ \cup {idx[p]}])
     /\ dbs' = [dbs EXCEPT ![p] = Append(@, f)]
     /\ NextEntry(p)

\* One call of the archiver.Walk callback of extractArchive, on entry idx.
WalkEntry(p) ==
  /\ pc[p] = "walk"
  /\ archive.st = "full"
  /\ idx[p] <= Len(archive.entries)
  /\ LET f == archive.entries[idx[p]]
         old == dest[f.name]
     IN  \/ \* directory or other extension: return nil
            /\ ~IsPayload(f)
            /\ NextEntry(p)
            /\ UNCHANGED <<dest, dbs, obs>>
         \/ \* checksumFromReader or checksumFromFile(dbpath) fails
            /\ IsPayload(f)
            /\ \E k \in {"entrysum"} \cup (IF fileExists(old) THEN {"destsum"} ELSE {}) :
                 Fail(p, Err(k))
            /\ UNCHANGED <<dest, dbs, idx, obs>>
         \/ \* "Database is already up to date": return nil
            /\ IsPayload(f)
            /\ UpToDate(f, old)
            /\ NextEntry(p)
            /\ Saw(p, [obs[p] EXCEPT !.skipped = @ \cup {idx[p]}])
            /\ UNCHANGED <<dest, dbs>>
         \/ \* "Extracting database"
            /\ IsPayload(f)
            /\ ~UpToDate(f, old)
            /\ ExtractEntry(p, f)
  /\ UNCHANGED <<archive, marker, expHash, lastOk>>

\* archiver.Walk cannot read the archive (it is not a well-formed archive, or
\* a read fails): extractArchive returns the error.
WalkFails(p) ==
  /\ pc[p] = "walk"
  /\ Fail(p, Err("walk"))
  /\ UNCHANGED <<disk, expHash, dbs, idx, obs, lastOk>>

\* archiver.Walk reached the end: extractArchive returns (dbs, nil) and
\* Download returns it.
ExtractReturn(p) ==
  /\ pc[p] = "walk"
  /\ archive.st = "full"
  /\ idx[p] > Len(archive.entries)
  /\ pc' = [pc EXCEPT ![p] = "done"]
  /\ ret' = [ret EXCEPT ![p] = dbs[p]]
  /\ UNCHANGED <<disk, expHash, err, dbs, idx, obs, lastOk>>

\* The caller takes the result; the next call starts from scratch.
Return(p) ==
  /\ pc[p] = "done"
  /\ lastOk' = IF err[p] = NoErr THEN expHash[p] ELSE -1
  /\ pc' = [pc EXCEPT ![p] = "idle"]
  /\ expHash' = [expHash EXCEPT ![p] = -1]
  /\ err' = [err EXCEPT ![p] = NoErr]
  /\ ret' = [ret EXCEPT ![p] = <<>>]
  /\ dbs' = [dbs EXCEPT ![p] = <<>>]
  /\ idx' = [idx EXCEPT ![p] = 0]
  /\ Saw(p, NoObs)
  /\ UNCHANGED disk

Step(p) ==
  \/ Start(p)
  \/ ExpectedHash(p)
  \/ CheckArchive(p)
  \/ GetArchive(p)
  \/ CreateArchive(p)
  \/ CopyArchive(p)
  \/ VerifyArchive(p)
  \/ WriteMarker(p)
  \/ WalkEntry(p)
  \/ WalkFails(p)
  \/ ExtractReturn(p)
  \/ Return(p)

\* Sequential use: one caller, each Download() runs to completion before the
\* next is called.
Next == \E p \in SeqProcs : Step(p)

Spec == Init /\ [][Next]_vars

\* ================================================================= claims
\* Error kinds that stand for a local I/O failure.
IOKinds ==
  {"readbody", "archivesum", "createarchive", "copyarchive", "createmd5",
   "walk", "entrysum", "destsum", "createdb", "copydb"}

\* The archive on disk exists and its checksum equals p's expected checksum.
ArchiveMatches(p) == archive.st # "absent" /\ ArchiveSum(archive) = expHash[p]

\* C1 (integrity gate): once the archive response body has a checksum other
\* than the expected one, the invocation never reaches the marker write or
\* the extraction, the marker is what it was when Download() was called, and
\* Download() ends with an error and no entries; unless a local I/O failure
\* came first, that error carries the computed and the expected checksum.
C1_IntegrityGate ==
  \A p \in Procs :
    (obs[p].bodySum # -1 /\ obs[p].bodySum # expHash[p]) =>
      /\ pc[p] \in {"verify", "done"}
      /\ marker = obs[p].marker0
      /\ "marker" \notin {obs[p].stages[i] : i \in 1..Len(obs[p].stages)}
      /\ "extract" \notin {obs[p].stages[i] : i \in 1..Len(obs[p].stages)}
      /\ dbs[p] = <<>>
      /\ pc[p] = "done" =>
           /\ err[p] # NoErr
           /\ ret[p] = <<>>
           /\ err[p].kind \notin IOKinds =>
                err[p] = MismatchErr(obs[p].bodySum, expHash[p])

\* C1 witness: Download() returned the mismatch error while a marker written
\* by an earlier invocation is still in place.
C1_Witness ==
  \E p \in Procs :
    /\ pc[p] = "done"
    /\ err[p].kind = "mismatch"
    /\ err[p].cur # err[p].exp
    /\ marker \in Digests
    /\ marker = obs[p].marker0

\* C2 (idempotence), as claimed: a successful Download() that follows a
\* successful Download() with the same expected checksum issued no archive
\* request and created or rewrote no destination file.
C2_Idempotent ==
  \A p \in Procs :
    (pc[p] = "done" /\ err[p] = NoErr /\ obs[p].repeat) =>
      (obs[p].archReqs = 0 /\ obs[p].destWrites = 0)

\* C3, as claimed: an entry skipped as already up to date is among the
\* entries Download() returns.
C3_SkippedReturned ==
  \A p \in Procs :
    (pc[p] = "done" /\ err[p] = NoErr /\ archive.st = "full") =>
      \A i \in obs[p].skipped :
        \E j \in 1..Len(ret[p]) : ret[p][j] = archive.entries[i]

\* C4 (skip-on-match): the archive request is issued only when the archive
\* is absent or its checksum differs from the expected one, and then exactly
\* once; when the archive exists with the expected checksum the marker write
\* is reached with no request issued and the archive file not written.
C4_SkipOnMatch ==
  \A p \in Procs :
    /\ obs[p].archReqs <= 1
    /\ pc[p] = "get" => (~ArchiveMatches(p) /\ obs[p].archReqs = 0)
    /\ pc[p] \in {"create", "copy", "verify"} => obs[p].archReqs = 1
    /\ (pc[p] = "done" /\ obs[p].cmp = "nomatch") => obs[p].archReqs = 1
    /\ obs[p].cmp = "match" => (obs[p].archReqs = 0 /\ obs[p].archWrites = 0)
    /\ (pc[p] = "marker" /\ obs[p].archReqs = 0) =>
         (ArchiveMatches(p) /\ obs[p].archWrites = 0 /\ obs[p].cmp = "match")

\* C4 witness: the download was skipped for an archive already on disk, in an
\* invocation that found a different or no marker.
C4_Witness ==
  \E p \in Procs :
    /\ pc[p] = "marker"
    /\ obs[p].archReqs = 0
    /\ archive.st = "full"
    /\ obs[p].marker0 # expHash[p]

\* C5, as claimed: with the marker equal to the expected checksum the download
\* is skipped, so no archive request is about to be issued.
C5_MarkerShortcut ==
  \A p \in Procs :
    (pc[p] = "get" /\ obs[p].marker0 = expHash[p]) => FALSE

\* C5, amended: the marker is not consulted. With the marker equal to the
\* expected checksum, the download is skipped exactly when the archive file
\* exists and its checksum, computed anew from the file, equals the expected
\* checksum; otherwise the archive request is issued.
C5_MarkerNotConsulted ==
  \A p \in Procs :
    (obs[p].marker0 = expHash[p] /\ expHash[p] \in Digests) =>
      /\ (pc[p] = "marker" /\ obs[p].archReqs = 0) => ArchiveMatches(p)
      /\ pc[p] = "get" => ~ArchiveMatches(p)
      /\ (obs[p].cmp = "nomatch" /\ pc[p] # "get") => obs[p].archReqs = 1

\* C5 witness: the marker holds the expected checksum, the archive on disk
\* does not have it, and the archive request is about to be issued.
C5_Witness ==
  \E p \in Procs :
    /\ pc[p] = "get"
    /\ obs[p].marker0 = expHash[p]
    /\ archive.st # "absent"
    /\ ArchiveSum(archive) # expHash[p]

\* The entries the claim expects in the result.
C6_Wanted(f) ==
  /\ ~f.dir
  /\ Len(f.name) >= 2
  /\ SubSeq(f.name, Len(f.name) - 1, Len(f.name)) \in {<<".", "csv">>, <<".", "mmdb">>}

\* C6 (extraction filtering), as claimed: a successful extraction into an
\* empty download directory returns exactly the non-directory .csv/.mmdb
\* entries in archive order, and creates no file for any other entry.
C6_ExtractionFiltering ==
  \A p \in Procs :
    (pc[p] = "done" /\ err[p] = NoErr /\ obs[p].destEmpty0 /\ archive.st = "full") =>
      /\ ret[p] = SelectSeq(archive.entries, C6_Wanted)
      /\ \A n \in Names :
           fileExists(dest[n]) =>
             \E i \in 1..Len(archive.entries) :
               C6_Wanted(archive.entries[i]) /\ archive.entries[i].name = n

\* C7 (write guard): a destination file changes only in the callback of an
\* invocation that is at a payload entry of that name while the file does
\* not exist or its checksum differs from the entry's.
C7_WriteGuard ==
  [][\A n \in Names :
       dest'[n] # dest[n] =>
         \E p \in Procs :
           /\ pc[p] = "walk"
           /\ archive.st = "full"
           /\ idx[p] <= Len(archive.entries)
           /\ archive.entries[idx[p]].name = n
           /\ ~archive.entries[idx[p]].dir
           /\ \/ ~fileExists(dest[n])
              \/ Digest(dest[n].content) # Digest(archive.entries[idx[p]].content)]_vars

\* C7 witness: in one extraction an entry was skipped because its file has
\* the entry's checksum but other bytes, and another entry was written.
C7_Witness ==
  \E p \in Procs :
    /\ archive.st = "full"
    /\ obs[p].destWrites > 0
    /\ \E i \in obs[p].skipped :
         dest[archive.entries[i].name].content # archive.entries[i].content

IsPrefix(s, t) == Len(s) <= Len(t) /\ s = SubSeq(t, 1, Len(s))

\* C8 (fail-closed sequencing): the stages begin in the order metadata,
\* fetch, marker, extraction; an error ends the invocation with no entries;
\* nothing beyond the metadata request runs without an expected checksum, and
\* a failed metadata request leaves no archive request and no file written.
C8_FailClosed ==
  \A p \in Procs :
    /\ IsPrefix(obs[p].stages, StageOrder)
    /\ err[p] # NoErr => (pc[p] = "done" /\ ret[p] = <<>>)
    /\ pc[p] \notin {"idle", "meta", "done"} => expHash[p] \in Digests
    /\ (pc[p] = "done" /\ expHash[p] \notin Digests) =>
         /\ err[p] # NoErr
         /\ obs[p].stages = <<"meta">>
         /\ obs[p].metaReqs = 1
         /\ obs[p].archReqs = 0
         /\ obs[p].archWrites = 0
         /\ obs[p].destWrites = 0
         /\ marker = obs[p].marker0
    /\ pc[p] = "walk" => obs[p].stages = StageOrder
    /\ pc[p] = "marker" => obs[p].stages = <<"meta", "fetch">>

\* C8 witness: the metadata request failed while an archive and a marker from
\* an earlier invocation are on disk.
C8_Witness ==
  \E p \in Procs :
    /\ pc[p] = "done"
    /\ expHash[p] \notin Digests
    /\ err[p].kind \in {"transport", "status"}
    /\ archive.st = "full"
    /\ marker \in Digests

\* C9 (marker persistence): whenever an invocation is past the marker write
\* (extracting, or returned with no error or with an extraction error), the
\* marker holds the expected checksum, after a download as well as after a
\* skip; after a download whose body has the expected checksum exactly one
\* archive request was issued.
C9_MarkerPersisted ==
  \A p \in Procs :
    /\ (\/ pc[p] = "walk"
        \/ /\ pc[p] = "done"
           /\ err[p].kind \in {"none", "walk", "entrysum", "destsum", "createdb", "copydb"})
         => marker = expHash[p]
    /\ (pc[p] \in {"marker", "walk"} /\ obs[p].cmp = "nomatch") =>
         (obs[p].archReqs = 1 /\ obs[p].bodySum = expHash[p] /\ err[p] = NoErr)

\* C9 witness: the download was skipped, the marker was absent or different
\* at the call, and it now holds the expected checksum.
C9_Witness ==
  \E p \in Procs :
    /\ pc[p] = "walk"
    /\ obs[p].cmp = "match"
    /\ marker = expHash[p]

\* C10 (best-effort modification time): an entry whose os.Chtimes failed is
\* in dbs, the failure is never the error Download() returns, and when
\* Download() succeeds the entry is in the result as the archive records it.
C10_ChtimesBestEffort ==
  \A p \in Procs :
    (obs[p].chtFailed # {} /\ archive.st = "full") =>
      /\ \A i \in obs[p].chtFailed :
           /\ \E j \in 1..Len(dbs[p]) : dbs[p][j] = archive.entries[i]
           /\ (pc[p] = "done" /\ err[p] = NoErr) =>
                \E j \in 1..Len(ret[p]) : ret[p][j] = archive.entries[i]
      /\ err[p] # NoErr => err[p].kind \in {"walk", "entrysum", "destsum", "createdb", "copydb"}

\* C10 witness: Download() succeeded although os.Chtimes failed on the first
\* of two extracted entries.
C10_Witness ==
  \E p \in Procs :
    /\ pc[p] = "done"
    /\ err[p] = NoErr
    /\ 1 \in obs[p].chtFailed
    /\ Len(ret[p]) = 2

\* Error kinds of a failure inside extractArchive.
ExtractKinds == {"walk", "entrysum", "destsum", "createdb", "copydb"}

\* The last entry of the given name among those appended to p's dbs.
LastExtracted(p, n) ==
  dbs[p][MaxOf({j \in 1..Len(dbs[p]) : dbs[p][j].name = n})]

\* C11 (no rollback, no partial result), as claimed: when extraction fails at
\* an entry, the walk has stopped there, Download() returns the error and no
\* entries, and every destination file written for an earlier entry still
\* holds the content extracted into it.
C11_NoRollback ==
  \A p \in Procs :
    (pc[p] = "done" /\ err[p].kind \in ExtractKinds) =>
      /\ ret[p] = <<>>
      /\ \A n \in {dbs[p][j].name : j \in 1..Len(dbs[p])} :
           dest[n].content = LastExtracted(p, n).content

\* C12 (no retry): one invocation of Download() issues at most one metadata
\* request and at most one archive request; the archive request comes after
\* the metadata request and only when the comparison found no match, and a
\* failure of either request ends the invocation.
C12_NoRetry ==
  \A p \in Procs :
    /\ obs[p].metaReqs <= 1
    /\ obs[p].archReqs <= 1
    /\ obs[p].archReqs = 1 => (obs[p].metaReqs = 1 /\ obs[p].cmp = "nomatch")
    /\ (err[p] # NoErr) => pc[p] = "done"

\* C12 witness: an invocation ended by a checksum mismatch after exactly one
\* request of each kind.
C12_Witness ==
  \E p \in Procs :
    /\ pc[p] = "done"
    /\ err[p].kind = "mismatch"
    /\ obs[p].metaReqs = 1
    /\ obs[p].archReqs = 1

\* The invocation has entered the stage s of Download().
Entered(p, s) == \E i \in 1..Len(obs[p].stages) : obs[p].stages[i] = s

\* A comparison made by this invocation found the archive's checksum equal
\* to expHash: the one before the request, or the one after the download.
ComparedEqual(p) ==
  \/ obs[p].cmp = "match"
  \/ obs[p].archReqs = 1 /\ obs[p].bodySum = expHash[p]

\* C13 (ordering): with no concurrent writer, an invocation writes the marker
\* and extracts only after one of its own comparisons found the archive's
\* checksum equal to the expected one, and the archive on disk still has that
\* checksum while it does so.
C13_VerifiedBeforeUse ==
  \A p \in Procs :
    (\/ pc[p] \in {"marker", "walk"}
     \/ Entered(p, "marker")
     \/ Entered(p, "extract")
     \/ obs[p].destWrites > 0
     \/ obs[p].skipped # {}
     \/ dbs[p] # <<>>) =>
      /\ ComparedEqual(p)
      /\ ArchiveMatches(p)
      /\ expHash[p] \in Digests

\* C13 witness: an invocation that downloaded the archive is extracting and
\* has written a destination file.
C13_Witness ==
  \E p \in Procs :
    /\ pc[p] = "walk"
    /\ obs[p].archReqs = 1
    /\ obs[p].destWrites > 0
    /\ marker = expHash[p]

\* No invocation of Download() is in progress.
Quiescent == \A p \in Procs : pc[p] = "idle"

\* C14 (marker/archive consistency), as claimed: after any sequence of
\* sequential invocations, whenever no invocation is in progress and the
\* marker exists, the archive's checksum equals the marker's content.
C14_MarkerDescribesArchive ==
  (Quiescent /\ marker \in Digests) =>
    (archive.st # "absent" /\ ArchiveSum(archive) = marker)

\* C14, amended: the marker describes the archive after an invocation that
\* returned without error, and whenever an invocation has written the marker
\* the archive on disk has the checksum it wrote. (A failed invocation that
\* rewrote the archive leaves the marker of the previous archive.)
C14_MarkerAfterSuccess ==
  /\ (Quiescent /\ lastOk \in Digests) =>
       (marker = lastOk /\ archive.st = "full" /\ ArchiveSum(archive) = marker)
  /\ \A p \in Procs :
       Entered(p, "extract") =>
         (marker = expHash[p] /\ archive.st # "absent" /\ ArchiveSum(archive) = marker)

\* C14 witness: the last invocation succeeded and nothing is running; marker
\* and archive agree.
C14_Witness ==
  /\ Quiescent
  /\ lastOk \in Digests
  /\ marker = lastOk
  /\ archive.st = "full"
  /\ Len(archive.entries) = MaxEntries

\* C15 (success post-condition), as claimed: whenever Download() returns
\* without error, for every archive, duplicate entry names included, the
\* archive on disk has the expected checksum, the marker holds the expected
\* checksum, and every payload entry's destination file exists with the
\* entry's checksum.
C15_SuccessPostcondition ==
  \A p \in Procs :
    (pc[p] = "done" /\ err[p] = NoErr) =>
      /\ ArchiveMatches(p)
      /\ marker = expHash[p]
      /\ \A i \in 1..Len(archive.entries) :
           LET f == archive.entries[i]
           IN  IsPayload(f) =>
                 /\ fileExists(dest[f.name])
                 /\ Digest(dest[f.name].content) = Digest(f.content)

\* The archive request of p has failed: transport error or non-200 status.
RequestFailed(p) ==
  pc[p] = "done" /\ obs[p].archReqs = 1 /\ err[p].kind \in {"transport", "status"}

\* C16 (failed archive request leaves the cache untouched): up to the archive
\* request an invocation has written nothing, and when the request fails
\* (transport error or non-200 status) the invocation ends with an error
\* without creating or truncating the archive: archive, marker and
\* destination files are as they were before the invocation.
C16_FailedRequestFrame ==
  /\ [](\A p \in Procs :
          (pc[p] = "get" \/ RequestFailed(p)) =>
            /\ obs[p].archWrites = 0
            /\ obs[p].destWrites = 0
            /\ marker = obs[p].marker0
            /\ ~Entered(p, "marker"))
  /\ [][\A p \in Procs :
          (pc[p] = "get" /\ pc'[p] = "done") =>
            /\ disk' = disk
            /\ err'[p].kind \in {"transport", "status"}
            /\ ret'[p] = <<>>]_vars

\* C16 witness: the archive request failed while an archive, a marker and a
\* destination file from an earlier invocation were on disk.
C16_Witness ==
  \E p \in Procs :
    /\ RequestFailed(p)
    /\ archive.st = "full"
    /\ marker \in Digests
    /\ \E n \in Names : fileExists(dest[n])

\* ---------------------------------------------------------- concurrent use
\* Two callers invoke Download() once each on the same working directory;
\* their steps interleave at the granularity of the file and network
\* operations. Nothing in Download() takes a lock.
ConcMaxEntries == 1

\* The download directory starts empty.
InitConc == Init /\ \A n \in Names : ~fileExists(dest[n])

\* Local file operations succeed, except that reading the archive may fail;
\* the requests may fail and the served bytes are arbitrary.
NoLocalFault ==
  \A q \in Procs :
    /\ err[q].kind \notin (IOKinds \ {"walk"})
    /\ obs[q].chtFailed = {}

\* The runs considered: small archives, no local fault.
ConcOk == Len(archive.entries) <= ConcMaxEntries /\ NoLocalFault

\* One step of one invocation; no caller calls Download() a second time.
NextConc ==
  \E p \in Procs :
    \/ Start(p) /\ ConcOk'
    \/ ExpectedHash(p) /\ ConcOk'
    \/ CheckArchive(p) /\ ConcOk'
    \/ GetArchive(p) /\ ConcOk'
    \/ CreateArchive(p) /\ ConcOk'
    \/ CopyArchive(p) /\ ConcOk'
    \/ VerifyArchive(p) /\ ConcOk'
    \/ WriteMarker(p) /\ ConcOk'
    \/ WalkEntry(p) /\ ConcOk'
    \/ WalkFails(p) /\ ConcOk'
    \/ ExtractReturn(p) /\ ConcOk'

SpecConc == InitConc /\ [][NextConc]_vars

\* C17 (unsafe concurrency): with two concurrent invocations, an invocation
\* that is writing the marker or extracting has passed one of its checksum
\* comparisons, and when the archive on disk does not have the confirmed
\* checksum any more it is because the other invocation has truncated or
\* rewritten the archive.
C17_RaceOnArchive ==
  \A p \in Procs :
    (pc[p] \in {"marker", "walk"}) =>
      /\ expHash[p] \in Digests
      /\ obs[p].cmp = "match" \/ obs[p].archReqs = 1
      /\ ~ArchiveMatches(p) => \E q \in Procs \ {p} : obs[q].archWrites > 0

\* C17 witness: p confirmed the checksum, the other invocation rewrote
\* the archive and has not verified it yet, and p wrote the marker and
\* extracted the entry of the rewritten archive, whose checksum is not the
\* one p confirmed.
C17_Witness ==
  \E p \in Procs : \E q \in Procs \ {p} :
    /\ pc[p] = "walk"
    /\ marker = expHash[p]
    /\ pc[q] = "verify"
    /\ obs[q].archWrites > 0
    /\ archive.st = "full"
    /\ ~ArchiveMatches(p)
    /\ obs[p].destWrites > 0
    /\ dbs[p] # <<>>
    /\ dbs[p] = archive.entries

====
